---- MODULE Spec2Model ----
(***************************************************************************)
(* toml2lua: parse(toml) deserialises a TOML document into an ordered map  *)
(* and renders it as the text of a Lua table literal (src/src/lib.rs).     *)
(*                                                                         *)
(* Text is a sequence of one-character strings.  A Value is a record       *)
(* tagged by "type"; a Table is the sequence of its (k, v) entries in the  *)
(* order the map iterates them; an Array is the sequence of its elements.  *)
(***************************************************************************)
EXTENDS Integers, Sequences, FiniteSets, TLC

VARIABLES input, toml, lua, idx, pc, result

vars == <<input, toml, lua, idx, pc, result>>

----------------------------------------------------------------------------
(* Bounds of the model *)

\* most nodes (entries at any depth) of a document of TreeMaps
MaxNodes == 3
\* most characters of a key or string of TextMaps
MaxStrLen == 2

----------------------------------------------------------------------------
(* Characters *)

NL == "\n"
TAB == "\t"
CR == "\r"
BS == "\\"
DQ == "\""

DigitChars == <<"0", "1", "2", "3", "4", "5", "6", "7", "8", "9">>

----------------------------------------------------------------------------
(* Values: toml::Value *)

String(s) == [type |-> "String", s |-> s]
Integer(i) == [type |-> "Integer", i |-> i]
Float(f) == [type |-> "Float", f |-> f]
Boolean(b) == [type |-> "Boolean", b |-> b]
Datetime(d) == [type |-> "Datetime", d |-> d]
Array(a) == [type |-> "Array", a |-> a]
Table(t) == [type |-> "Table", t |-> t]

Entry(k, v) == [k |-> k, v |-> v]

None == [some |-> FALSE]
Some(x) == [some |-> TRUE, val |-> x]

Ok(x) == [ok |-> TRUE, val |-> x]
Err(e) == [ok |-> FALSE, err |-> e]

----------------------------------------------------------------------------
(* Display of the scalar types *)

RECURSIVE NatToString(_)
NatToString(n) ==
    IF n < 10 THEN <<DigitChars[n + 1]>>
    ELSE NatToString(n \div 10) \o <<DigitChars[(n % 10) + 1]>>

\* i64::to_string: decimal digits, a sign only when negative
IntToString(i) == IF i < 0 THEN <<"-">> \o NatToString(-i) ELSE NatToString(i)

\* {:0w}: decimal digits, zero-padded on the left to width w
PadTo(n, w) ==
    LET s == NatToString(n)
    IN  [i \in 1..(IF w > Len(s) THEN w - Len(s) ELSE 0) |-> "0"] \o s

\* f64::to_string. A float is [kind |-> "nan"], [kind |-> "inf", neg], or a
\* finite decimal [kind |-> "fin", neg, whole, tenths]; an integral float
\* shows no decimal point.
FloatToString(f) ==
    CASE f.kind = "nan" -> <<"N", "a", "N">>
      [] f.kind = "inf" -> (IF f.neg THEN <<"-">> ELSE <<>>) \o <<"i", "n", "f">>
      [] f.kind = "fin" ->
            (IF f.neg THEN <<"-">> ELSE <<>>)
            \o NatToString(f.whole)
            \o (IF f.tenths = 0 THEN <<>> ELSE <<".">> \o NatToString(f.tenths))

BoolToString(b) == IF b THEN <<"t", "r", "u", "e">> ELSE <<"f", "a", "l", "s", "e">>

RECURSIVE TrimZeros(_)
\* the digits without their trailing zeros
TrimZeros(digits) ==
    IF digits # <<>> /\ digits[Len(digits)] = "0"
    THEN TrimZeros(SubSeq(digits, 1, Len(digits) - 1))
    ELSE digits

\* Display of toml::value::Datetime: [date] ['T' if both] [time] [offset];
\* the nanoseconds follow the seconds when they are not zero
DatetimeToString(d) ==
    (IF d.date.some
        THEN PadTo(d.date.val.year, 4) \o <<"-">> \o PadTo(d.date.val.month, 2)
             \o <<"-">> \o PadTo(d.date.val.day, 2)
        ELSE <<>>)
    \o (IF d.date.some /\ d.time.some THEN <<"T">> ELSE <<>>)
    \o (IF d.time.some
        THEN PadTo(d.time.val.hour, 2) \o <<":">> \o PadTo(d.time.val.minute, 2)
             \o <<":">> \o PadTo(d.time.val.second, 2)
             \o (IF d.time.val.nanosecond = 0 THEN <<>>
                 ELSE <<".">> \o TrimZeros(PadTo(d.time.val.nanosecond, 9)))
        ELSE <<>>)
    \o (IF d.offset.some
        THEN (IF d.offset.val.kind = "Z" THEN <<"Z">>
              ELSE <<d.offset.val.sign>> \o PadTo(d.offset.val.hours, 2)
                   \o <<":">> \o PadTo(d.offset.val.minutes, 2))
        ELSE <<>>)

----------------------------------------------------------------------------
(* The renderer *)

\* for _ in 0..=depth
get_indent_inclusive(depth) == [i \in 1..(depth + 1) |-> TAB]

get_indent(depth) == [i \in 1..depth |-> TAB]

\* the backslash arm left out
validate_char_keeps_backslash(char) ==
    CASE char = NL -> <<BS, "n">>
      [] char = TAB -> <<BS, "t">>
      [] char = CR -> <<BS, "r">>
      [] char = DQ -> <<BS, DQ>>
      [] OTHER -> <<char>>

\* the newline arm left out
validate_char_keeps_newline(char) ==
    CASE char = TAB -> <<BS, "t">>
      [] char = CR -> <<BS, "r">>
      [] char = BS -> <<BS, BS>>
      [] char = DQ -> <<BS, DQ>>
      [] OTHER -> <<char>>

validate_char(char) ==
    CASE char = NL -> <<BS, "n">>
      [] char = TAB -> <<BS, "t">>
      [] char = CR -> <<BS, "r">>
      [] char = BS -> <<BS, BS>>
      [] char = DQ -> <<BS, DQ>>
      [] OTHER -> <<char>>

RECURSIVE validate_from(_, _)
validate_from(string, i) ==
    IF i > Len(string) THEN <<>>
    ELSE validate_char(string[i]) \o validate_from(string, i + 1)

validate_string(string) == validate_from(string, 1)

walk_key(key) ==
    IF key.some
    THEN <<"[", DQ>> \o validate_string(key.val) \o <<DQ, "]", " ", "=", " ">>
    ELSE <<>>

walk_string(s) == <<DQ>> \o validate_string(s) \o <<DQ>>

\* the datetime emitted bare, as TOML writes it
walk_datetime_bare(d) == DatetimeToString(d)

walk_datetime(d) == <<DQ>> \o DatetimeToString(d) \o <<DQ>>

\* the closing brace without its indentation
walk_close_unindented(depth) == <<"}">>

\* lua.push_str(&get_indent(depth)); lua.push('}')
walk_close(depth) == get_indent(depth) \o <<"}">>

\* no comma after an entry
walk_end_no_comma == <<NL>>

walk_end == <<",", NL>>

RECURSIVE walk(_, _, _), walk_array(_, _, _), walk_table(_, _, _)

\* the entries taken last to first
walk_table_reversed(t, i, depth) ==
    IF i > Len(t) THEN <<>>
    ELSE walk_table(t, i + 1, depth) \o walk(Some(t[i].k), t[i].v, depth + 1)

walk_array(a, i, depth) ==
    IF i > Len(a) THEN <<>>
    ELSE walk(None, a[i], depth + 1) \o walk_array(a, i + 1, depth)

walk_table(t, i, depth) ==
    IF i > Len(t) THEN <<>>
    ELSE walk(Some(t[i].k), t[i].v, depth + 1) \o walk_table(t, i + 1, depth)

walk(key, value, depth) ==
    get_indent(depth)
    \o walk_key(key)
    \o (CASE value.type = "String" -> walk_string(value.s)
          [] value.type = "Integer" -> IntToString(value.i)
          [] value.type = "Float" -> FloatToString(value.f)
          [] value.type = "Boolean" -> BoolToString(value.b)
          [] value.type = "Datetime" -> walk_datetime(value.d)
          [] value.type = "Array" ->
                <<"{", NL>> \o walk_array(value.a, 1, depth) \o walk_close(depth)
          [] value.type = "Table" ->
                <<"{", NL>> \o walk_table(value.t, 1, depth) \o walk_close(depth))
    \o walk_end

\* toml::from_str: the text is known by what the TOML parser makes of it
from_str(text) == IF text.valid THEN Ok(text.map) ELSE Err(text.error)

\* the key handed to walk for a root entry
parse_key(key) == Some(validate_string(key))

----------------------------------------------------------------------------
(* Inputs: a TOML text is known by what toml::from_str makes of it, an     *)
(* error or the ordered map of the document                                *)

ParseErrors == {"expected an equals", "duplicate key"}

ErrInputs == {[valid |-> FALSE, error |-> e] : e \in ParseErrors}

\* documents of at most MaxNodes entries, of every shape

TreeKeys == {<<"c">>, <<"a", DQ>>, <<"b", BS>>}

TreeScalars == {String(<<"}", ",", NL, DQ, BS>>)}

KeysOf(t) == {t[i].k : i \in 1..Len(t)}

RECURSIVE ValuesOfSize(_), ForestOfSize(_), KeyedForestOfSize(_)

\* the values of n entries, the value's own counted
ValuesOfSize(n) ==
    (IF n = 1 THEN TreeScalars ELSE {})
    \cup {Array(a) : a \in ForestOfSize(n - 1)}
    \cup {Table(t) : t \in KeyedForestOfSize(n - 1)}

\* the sequences of values of m entries in all
ForestOfSize(m) ==
    IF m = 0 THEN {<<>>}
    ELSE UNION {{<<v>> \o f : v \in ValuesOfSize(j), f \in ForestOfSize(m - j)}
                : j \in 1..m}

\* the same under keys, no key twice in a table
KeyedForestOfSize(m) ==
    IF m = 0 THEN {<<>>}
    ELSE UNION {UNION {{<<Entry(k, v)>> \o f
                        : k \in TreeKeys \ KeysOf(f), v \in ValuesOfSize(j)}
                       : f \in KeyedForestOfSize(m - j)}
                : j \in 1..m}

TreeMaps == UNION {KeyedForestOfSize(m) : m \in 0..MaxNodes}

\* documents of one entry, over every short key and string

TextChars == {"a", NL, TAB, CR, BS, DQ}

TextStrings == UNION {[1..n -> TextChars] : n \in 0..MaxStrLen}

Date(y, m, d) == [year |-> y, month |-> m, day |-> d]
Time(h, m, s, ns) == [hour |-> h, minute |-> m, second |-> s, nanosecond |-> ns]
OffsetZ == [kind |-> "Z"]
OffsetCustom(sign, h, m) == [kind |-> "Custom", sign |-> sign, hours |-> h, minutes |-> m]

Datetimes ==
    { [date |-> Some(Date(1979, 5, 27)), time |-> Some(Time(0, 32, 0, 999999000)),
       offset |-> Some(OffsetCustom("-", 7, 0))],
      [date |-> Some(Date(1979, 5, 27)), time |-> Some(Time(7, 32, 0, 0)),
       offset |-> Some(OffsetZ)],
      [date |-> Some(Date(1979, 5, 27)), time |-> None, offset |-> None],
      [date |-> None, time |-> Some(Time(7, 32, 0, 500000000)), offset |-> None] }

Floats ==
    { [kind |-> "fin", neg |-> FALSE, whole |-> 6, tenths |-> 9],
      [kind |-> "fin", neg |-> TRUE, whole |-> 1, tenths |-> 0],
      [kind |-> "inf", neg |-> TRUE],
      [kind |-> "nan"] }

OtherScalars ==
    {Integer(i) : i \in {-1, 0, 12345}}
    \cup {Float(f) : f \in Floats}
    \cup {Boolean(b) : b \in BOOLEAN}
    \cup {Datetime(d) : d \in Datetimes}

TextMaps ==
    {<<Entry(k, Integer(0))>> : k \in TextStrings}
    \cup {<<Entry(<<"s">>, String(s))>> : s \in TextStrings}
    \cup {<<Entry(<<"t">>, Table(<<Entry(k, String(k))>>))>> : k \in TextStrings}
    \cup {<<Entry(<<"a">>, Array(<<Array(<<String(s)>>)>>))>> : s \in TextStrings}
    \cup {<<Entry(<<"x">>, v)>> : v \in OtherScalars}
    \cup {<<Entry(<<"a">>, Array(<<v>>))>> : v \in OtherScalars}

\* the documents of the tests

AllValuesMap ==
    << Entry(<<"s", "t", "r", "i", "n", "g">>, String(<<"s", "t", "r">>)),
       Entry(<<"i", "n", "t">>, Integer(420)),
       Entry(<<"f", "l", "o", "a", "t">>,
             Float([kind |-> "fin", neg |-> FALSE, whole |-> 6, tenths |-> 9])),
       Entry(<<"b", "o", "o", "l">>, Boolean(TRUE)),
       Entry(<<"d", "a", "t", "e", "t", "i", "m", "e">>,
             Datetime([date |-> Some(Date(1979, 5, 27)),
                       time |-> Some(Time(0, 32, 0, 999999000)),
                       offset |-> Some(OffsetCustom("-", 7, 0))])),
       Entry(<<"a", "r", "r", "a", "y">>,
             Array(<<String(<<"s", "t", "r", "i", "n", "g">>), Integer(12345),
                     Boolean(FALSE)>>)),
       Entry(<<"o", "b", "j", "e", "c", "t">>,
             Table(<<Entry(<<"k", "e", "y">>, String(<<"v", "a", "l", "u", "e">>))>>)) >>

MalformedStringsMap ==
    << Entry(<<"1">>, String(<<".", ".", NL, ".", ".">>)),
       Entry(<<"2">>, String(<<".", ".", TAB, ".", ".">>)),
       Entry(<<"3">>, String(<<".", ".", CR, ".", ".">>)),
       Entry(<<"4">>, String(<<".", ".", BS, ".", ".">>)),
       Entry(<<"5">>, String(<<".", ".", DQ, ".", ".">>)) >>

TestMaps == {AllValuesMap, MalformedStringsMap}

Inputs ==
    ErrInputs
    \cup {[valid |-> TRUE, map |-> m] : m \in TreeMaps \cup TextMaps \cup TestMaps}

----------------------------------------------------------------------------
(* parse *)

Init ==
    /\ input \in Inputs
    /\ toml = <<>>
    /\ lua = <<>>
    /\ idx = 1
    /\ pc = "from_str"
    /\ result = None

\* the parser's error replaced by one of parse's own
ParseErr_reworded ==
    /\ pc = "from_str"
    /\ ~from_str(input).ok
    /\ result' = Some(Err("invalid TOML"))
    /\ pc' = "done"
    /\ UNCHANGED <<input, toml, lua, idx>>

\* let toml: IndexMap<String, Value> = from_str(toml)?  -- the error returns
ParseErr ==
    /\ pc = "from_str"
    /\ ~from_str(input).ok
    /\ result' = Some(Err(from_str(input).err))
    /\ pc' = "done"
    /\ UNCHANGED <<input, toml, lua, idx>>

\* let toml = from_str(toml)?; let mut lua = String::from("{\n")
ParseOk ==
    /\ pc = "from_str"
    /\ from_str(input).ok
    /\ toml' = from_str(input).val
    /\ lua' = <<"{", NL>>
    /\ idx' = 1
    /\ pc' = "for"
    /\ UNCHANGED <<input, result>>

\* for (key, value) in toml { lua.push_str(&walk(Some(&validate_string(&key)), &value, 1)) }
ParseFor ==
    /\ pc = "for"
    /\ idx <= Len(toml)
    /\ lua' = lua \o walk(parse_key(toml[idx].k), toml[idx].v, 1)
    /\ idx' = idx + 1
    /\ UNCHANGED <<input, toml, pc, result>>

\* the root's closing brace followed by a newline
ParseReturn_newline ==
    /\ pc = "for"
    /\ idx > Len(toml)
    /\ lua' = lua \o <<"}", NL>>
    /\ result' = Some(Ok(lua'))
    /\ pc' = "done"
    /\ UNCHANGED <<input, toml, idx>>

\* lua.push('}'); Ok(lua)
ParseReturn ==
    /\ pc = "for"
    /\ idx > Len(toml)
    /\ lua' = Append(lua, "}")
    /\ result' = Some(Ok(lua'))
    /\ pc' = "done"
    /\ UNCHANGED <<input, toml, idx>>

Next == ParseErr \/ ParseOk \/ ParseFor \/ ParseReturn

Spec == Init /\ [][Next]_vars

----------------------------------------------------------------------------
(* Reading the output back: lines, indentation, keys and value tokens      *)

Rendered == pc = "done" /\ result.some /\ result.val.ok

Out == result.val.val

RECURSIVE SplitFrom(_, _)
\* the lines of the text from position i on
SplitFrom(text, i) ==
    LET ends == {p \in i..Len(text) : text[p] = NL}
    IN  IF ends = {} THEN <<SubSeq(text, i, Len(text))>>
        ELSE LET p == CHOOSE q \in ends : \A r \in ends : q <= r
             IN  <<SubSeq(text, i, p - 1)>> \o SplitFrom(text, p + 1)

\* the text cut at its raw newlines
Lines(text) == SplitFrom(text, 1)

RECURSIVE TabsFrom(_, _)
TabsFrom(line, i) ==
    IF i <= Len(line) /\ line[i] = TAB THEN 1 + TabsFrom(line, i + 1) ELSE 0

\* A Lua string whose content starts at p ends at the first double quote
\* that no backslash escapes; 0 when there is none.
RECURSIVE StringEnd(_, _)
StringEnd(line, p) ==
    IF p > Len(line) THEN 0
    ELSE IF line[p] = DQ THEN p
    ELSE IF line[p] = BS THEN StringEnd(line, p + 2)
    ELSE StringEnd(line, p + 1)

KeySep == <<"]", " ", "=", " ">>

ParseLine(line) ==
    LET t == TabsFrom(line, 1)
        body == SubSeq(line, t + 1, Len(line))
        keyed == Len(body) >= 2 /\ body[1] = "[" /\ body[2] = DQ
        e == IF keyed THEN StringEnd(body, 3) ELSE 0
        keyOk == /\ keyed
                 /\ e > 0
                 /\ Len(body) >= e + 4
                 /\ SubSeq(body, e + 1, e + 4) = KeySep
    IN  [tabs |-> t,
         keyed |-> keyed,
         wellKeyed |-> ~keyed \/ keyOk,
         key |-> IF keyOk THEN SubSeq(body, 3, e - 1) ELSE <<>>,
         rest |-> IF keyOk THEN SubSeq(body, e + 5, Len(body)) ELSE body]

BareChars ==
    {DigitChars[i] : i \in 1..10}
    \cup {"-", ".", "t", "r", "u", "e", "f", "a", "l", "s", "i", "n", "N"}

IsStringToken(tok) ==
    Len(tok) >= 2 /\ tok[1] = DQ /\ StringEnd(tok, 2) = Len(tok)

IsBareToken(tok) ==
    Len(tok) >= 1 /\ \A i \in 1..Len(tok) : tok[i] \in BareChars

Front(seq) == SubSeq(seq, 1, Len(seq) - 1)

\* "open": [key and] an opening brace; "close": a closing brace and a comma;
\* "scalar": [key and] one string or bare token and a comma
LineKind(line) ==
    LET p == ParseLine(line)
    IN  IF ~p.wellKeyed THEN "bad"
        ELSE IF p.rest = <<"{">> THEN "open"
        ELSE IF ~p.keyed /\ p.rest = <<"}", ",">> THEN "close"
        ELSE IF /\ Len(p.rest) >= 2
                /\ p.rest[Len(p.rest)] = ","
                /\ (IsStringToken(Front(p.rest)) \/ IsBareToken(Front(p.rest)))
             THEN "scalar"
        ELSE "bad"

\* the lines between the root's opening and closing brace
Inner(text) == LET L == Lines(text) IN SubSeq(L, 2, Len(L) - 1)

IsEntryLine(line) == LineKind(line) # "close"
IsCloseLine(line) == LineKind(line) = "close"

EntryLines(text) == SelectSeq(Inner(text), IsEntryLine)
CloseLines(text) == SelectSeq(Inner(text), IsCloseLine)

\* the value token of a scalar entry line
ValueToken(line) == Front(ParseLine(line).rest)

----------------------------------------------------------------------------
(* The document as the walk meets it *)

IsContainer(v) == v.type \in {"Array", "Table"}

Node(key, value, depth) == [key |-> key, value |-> value, depth |-> depth]

RECURSIVE NodesOf(_, _, _), NodesOfArray(_, _, _), NodesOfTable(_, _, _)

NodesOfArray(a, i, depth) ==
    IF i > Len(a) THEN <<>>
    ELSE NodesOf(None, a[i], depth) \o NodesOfArray(a, i + 1, depth)

NodesOfTable(t, i, depth) ==
    IF i > Len(t) THEN <<>>
    ELSE NodesOf(Some(t[i].k), t[i].v, depth) \o NodesOfTable(t, i + 1, depth)

\* the entries of a value in document order, each before its children
NodesOf(key, value, depth) ==
    <<Node(key, value, depth)>>
    \o (CASE value.type = "Array" -> NodesOfArray(value.a, 1, depth + 1)
          [] value.type = "Table" -> NodesOfTable(value.t, 1, depth + 1)
          [] OTHER -> <<>>)

Nodes == NodesOfTable(toml, 1, 1)

RECURSIVE ClosesOf(_, _), ClosesOfSeq(_, _, _)

ClosesOfSeq(vs, i, depth) ==
    IF i > Len(vs) THEN <<>>
    ELSE ClosesOf(vs[i], depth) \o ClosesOfSeq(vs, i + 1, depth)

\* the depths of the containers of a value in the order they end
ClosesOf(value, depth) ==
    CASE value.type = "Array" ->
            ClosesOfSeq(value.a, 1, depth + 1) \o <<depth>>
      [] value.type = "Table" ->
            ClosesOfSeq([i \in 1..Len(value.t) |-> value.t[i].v], 1, depth + 1)
            \o <<depth>>
      [] OTHER -> <<>>

Closes == ClosesOfSeq([i \in 1..Len(toml) |-> toml[i].v], 1, 1)

NumContainers ==
    LET N == Nodes IN Cardinality({i \in 1..Len(N) : IsContainer(N[i].value)})

----------------------------------------------------------------------------
(* Properties of the output *)

Positions(text, c) == {p \in 1..Len(text) : text[p] = c}

\* the positions of the newlines that follow the character c
NewlinesAfter(text, c) == {p \in 2..Len(text) : text[p] = NL /\ text[p - 1] = c}

HasChar(text, c) == \E p \in 1..Len(text) : text[p] = c

\* C5: every entry ends with exactly one comma and a newline, the last entry
\* of a container like the others, and a container's comma follows its
\* closing brace: the output holds one newline preceded by a comma for each
\* entry, no second comma before it, a closing brace before the comma of
\* each container, and every other newline follows an opening brace.
C5_TrailingComma ==
    Rendered =>
        LET commas == NewlinesAfter(Out, ",")
            braces == NewlinesAfter(Out, "{")
        IN  /\ Cardinality(commas) = Len(Nodes)
            /\ Cardinality(braces) = 1 + NumContainers
            /\ Positions(Out, NL) = commas \cup braces
            /\ \A p \in commas : p >= 3 /\ Out[p - 2] # ","
            /\ Cardinality({p \in commas : Out[p - 2] = "}"}) = NumContainers

\* a table of three entries whose last is a container, and an array whose
\* only element is last
C5_Witness ==
    /\ Rendered
    /\ Len(toml) = 3
    /\ toml[1].v.type = "String"
    /\ toml[3].v.type = "Array"
    /\ Len(toml[3].v.a) = 0

\* C6: a successful parse returns text that begins with an opening brace and
\* a newline and ends with a closing brace on a line of its own, followed by
\* nothing; for a document with no entries it is exactly "{", newline, "}".
C6_RootBraces ==
    Rendered =>
        /\ Len(Out) >= 3
        /\ Out[1] = "{"
        /\ Out[2] = NL
        /\ Out[Len(Out)] = "}"
        /\ Out[Len(Out) - 1] = NL
        /\ (toml = <<>> => Out = <<"{", NL, "}">>)

C6_Witness == Rendered /\ toml = <<>>

RECURSIVE Balanced(_, _, _)
\* every line that opens a brace is closed by a later line of the same
\* indentation, innermost first; the other lines are scalar entries
Balanced(L, i, stack) ==
    IF i > Len(L) THEN stack = <<>>
    ELSE LET p == ParseLine(L[i])
         IN  IF LineKind(L[i]) = "open"
                THEN Balanced(L, i + 1, <<p.tabs>> \o stack)
             ELSE IF ~p.keyed /\ p.rest \in {<<"}">>, <<"}", ",">>}
                THEN /\ stack # <<>>
                     /\ Head(stack) = p.tabs
                     /\ Balanced(L, i + 1, Tail(stack))
             ELSE LineKind(L[i]) = "scalar" /\ Balanced(L, i + 1, stack)

IsBrace(c) == c \in {"{", "}"}

RECURSIVE BracesMatch(_, _, _, _)
\* every brace character of the lines L from the j-th brace of line i on:
\* an opening brace is matched by the next unmatched closing brace, which
\* stands on a line of the same indentation
BracesMatch(L, i, j, stack) ==
    IF i > Len(L) THEN stack = <<>>
    ELSE LET braces == SelectSeq(L[i], IsBrace)
             tabs == TabsFrom(L[i], 1)
         IN  IF j > Len(braces) THEN BracesMatch(L, i + 1, 1, stack)
             ELSE IF braces[j] = "{"
                THEN BracesMatch(L, i, j + 1, <<tabs>> \o stack)
             ELSE /\ stack # <<>>
                  /\ Head(stack) = tabs
                  /\ BracesMatch(L, i, j + 1, Tail(stack))

\* C7 as stated: on every valid document, whatever characters its strings
\* and keys hold, parse succeeds and every opening brace of the output has a
\* matching closing brace on a line of the same indentation.
C7_EveryBraceMatched ==
    (pc = "done" /\ input.valid) =>
        /\ result.some
        /\ result.val.ok
        /\ BracesMatch(Lines(Out), 1, 1, <<>>)

\* C7 amended: on every valid document parse succeeds, and the braces of the
\* output that stand outside its string literals (the quoted keys, strings
\* and datetimes) are balanced, each closing brace on a line indented like
\* the line of the brace it closes.
C7_Balanced ==
    (pc = "done" /\ input.valid) =>
        /\ result.some
        /\ result.val.ok
        /\ Balanced(Lines(Out), 1, <<>>)

\* a container in a container, beside a string that holds braces, commas,
\* quotes and a newline
C7_Witness ==
    /\ Rendered
    /\ \E i \in 1..Len(Nodes) : Nodes[i].depth = 2 /\ IsContainer(Nodes[i].value)
    /\ \E i \in 1..Len(Nodes) :
          /\ Nodes[i].value.type = "String"
          /\ HasChar(Nodes[i].value.s, "}")
          /\ HasChar(Nodes[i].value.s, DQ)

\* C8: the line of an entry at depth d starts with d tabs and no space, the
\* closing brace of a container entry at depth d stands after d tabs, and
\* the closing brace of the root after none.
C8_Indentation ==
    Rendered =>
        LET L == Lines(Out)
            E == EntryLines(Out)
            C == CloseLines(Out)
            N == Nodes
            D == Closes
        IN  /\ Len(E) = Len(N)
            /\ \A i \in 1..Len(E) :
                  /\ ParseLine(E[i]).tabs = N[i].depth
                  /\ Len(E[i]) > N[i].depth
                  /\ E[i][N[i].depth + 1] # " "
            /\ Len(C) = Len(D)
            /\ \A i \in 1..Len(C) :
                  /\ ParseLine(C[i]).tabs = D[i]
                  /\ Len(C[i]) = D[i] + 2
            /\ L[Len(L)] = <<"}">>

C8_Witness ==
    /\ Rendered
    /\ \E i \in 1..Len(Nodes) : Nodes[i].depth = 3
    /\ Len(Closes) >= 2

\* C10: a document of N entries, C of them arrays or tables, renders as
\* 1 + N + C newlines; between the first and the last line every line is an
\* entry line or a closing-brace line, one entry line for each entry and one
\* closing line for each container, whatever the strings and keys hold.
C10_LineStructure ==
    Rendered =>
        LET L == Lines(Out)
            I == SubSeq(L, 2, Len(L) - 1)
            closing == {i \in 1..Len(I) : LineKind(I[i]) = "close"}
            entries == {i \in 1..Len(I) : LineKind(I[i]) \in {"scalar", "open"}}
        IN  /\ Cardinality(Positions(Out, NL)) = 1 + Len(Nodes) + NumContainers
            /\ closing \cup entries = 1..Len(I)
            /\ Cardinality(entries) = Len(Nodes)
            /\ Cardinality(closing) = NumContainers
            /\ L[1] = <<"{">>
            /\ L[Len(L)] = <<"}">>

\* a key and a string that hold a newline, in a table
C10_Witness ==
    /\ Rendered
    /\ NumContainers >= 1
    /\ \E i \in 1..Len(Nodes) :
          /\ Nodes[i].key.some
          /\ HasChar(Nodes[i].key.val, NL)
          /\ Nodes[i].value.type = "String"
          /\ HasChar(Nodes[i].value.s, NL)

RECURSIVE Plain(_, _)
\* a text without its escaping: the backslashes dropped, a raw newline, tab
\* or carriage return read as its letter; Plain(t) = Plain(validate_string(t))
Plain(text, i) ==
    IF i > Len(text) THEN <<>>
    ELSE (CASE text[i] = BS -> <<>>
            [] text[i] = NL -> <<"n">>
            [] text[i] = TAB -> <<"t">>
            [] text[i] = CR -> <<"r">>
            [] OTHER -> <<text[i]>>)
         \o Plain(text, i + 1)

\* the text of a scalar before any escaping
ScalarText(v) ==
    CASE v.type = "String" -> <<DQ>> \o v.s \o <<DQ>>
      [] v.type = "Integer" -> IntToString(v.i)
      [] v.type = "Float" -> FloatToString(v.f)
      [] v.type = "Boolean" -> BoolToString(v.b)
      [] v.type = "Datetime" -> <<DQ>> \o DatetimeToString(v.d) \o <<DQ>>

\* C1: the text between [" and "] of every keyed entry, of the root table or
\* of a nested one, is the key escaped once.
C1_KeysEscapedOnce ==
    Rendered =>
        LET E == EntryLines(Out)
            N == Nodes
        IN  /\ Len(E) = Len(N)
            /\ \A i \in 1..Len(E) :
                  N[i].key.some
                  => ParseLine(E[i]).key = validate_string(N[i].key.val)

\* What the code emits instead: a key of the root table escaped twice, by
\* parse and again by walk, and a key of a nested table once.
KeysAsEmitted ==
    Rendered =>
        LET E == EntryLines(Out)
            N == Nodes
        IN  /\ Len(E) = Len(N)
            /\ \A i \in 1..Len(E) :
                  N[i].key.some
                  => ParseLine(E[i]).key
                     = IF N[i].depth = 1
                          THEN validate_string(validate_string(N[i].key.val))
                          ELSE validate_string(N[i].key.val)

\* C2: the entries are emitted in the order of the document at every level:
\* the i-th entry line is the i-th entry of the document read table by
\* table and array by array, at its depth, under its key and with its value
\* (keys and strings compared without their escaping).
C2_DocumentOrder ==
    Rendered =>
        LET E == EntryLines(Out)
            N == Nodes
        IN  /\ Len(E) = Len(N)
            /\ \A i \in 1..Len(E) :
                  LET p == ParseLine(E[i])
                      n == N[i]
                  IN  /\ p.tabs = n.depth
                      /\ p.keyed = n.key.some
                      /\ n.key.some => Plain(p.key, 1) = Plain(n.key.val, 1)
                      /\ IF IsContainer(n.value)
                            THEN p.rest = <<"{">>
                            ELSE /\ LineKind(E[i]) = "scalar"
                                 /\ Plain(ValueToken(E[i]), 1)
                                    = Plain(ScalarText(n.value), 1)

\* a nested table whose keys are not in lexical order
C2_Witness ==
    /\ Rendered
    /\ Len(toml) = 1
    /\ toml[1].v.type = "Table"
    /\ Len(toml[1].v.t) = 2
    /\ toml[1].v.t[1].k = <<"c">>
    /\ toml[1].v.t[2].k = <<"a", DQ>>

RECURSIVE Unescape(_, _)
\* what Lua reads from the content of a string literal
Unescape(text, i) ==
    IF i > Len(text) THEN <<>>
    ELSE IF text[i] # BS THEN <<text[i]>> \o Unescape(text, i + 1)
    ELSE IF i = Len(text) THEN <<"dangling backslash">>
    ELSE (CASE text[i + 1] = "n" -> <<NL>>
            [] text[i + 1] = "t" -> <<TAB>>
            [] text[i + 1] = "r" -> <<CR>>
            [] text[i + 1] = BS -> <<BS>>
            [] text[i + 1] = DQ -> <<DQ>>
            [] OTHER -> <<"unknown escape">>)
         \o Unescape(text, i + 2)

RECURSIVE BackslashRun(_, _)
\* the number of backslashes that end at position p
BackslashRun(text, p) ==
    IF p >= 1 /\ text[p] = BS THEN 1 + BackslashRun(text, p - 1) ELSE 0

Specials(s) == Cardinality({p \in 1..Len(s) : s[p] \in {NL, TAB, CR, BS, DQ}})

\* C3: a string value s is emitted as one string token: a double quote, the
\* escape of s, a double quote. The escape holds two characters for each
\* newline, tab, carriage return, backslash and double quote of s and the
\* other characters as they are, Lua reads s back from it, it holds no raw
\* newline, tab or carriage return, and an odd number of backslashes
\* precedes each of its double quotes.
C3_StringLiteral ==
    Rendered =>
        LET E == EntryLines(Out)
            N == Nodes
        IN  /\ Len(E) = Len(N)
            /\ \A i \in 1..Len(E) :
                  N[i].value.type = "String" =>
                    /\ LineKind(E[i]) = "scalar"
                    /\ IsStringToken(ValueToken(E[i]))
                    /\ LET tok == ValueToken(E[i])
                           esc == SubSeq(tok, 2, Len(tok) - 1)
                           s == N[i].value.s
                       IN  /\ \A p \in 1..Len(esc) : esc[p] \notin {NL, TAB, CR}
                           /\ \A p \in 1..Len(esc) :
                                 esc[p] = DQ => BackslashRun(esc, p - 1) % 2 = 1
                           /\ Unescape(esc, 1) = s
                           /\ Len(esc) = Len(s) + Specials(s)

\* a string of a backslash and a double quote
C3_Witness ==
    /\ Rendered
    /\ \E i \in 1..Len(Nodes) :
          /\ Nodes[i].value.type = "String"
          /\ Nodes[i].value.s = <<BS, DQ>>

\* C4: a datetime is emitted as a double quote, the escape of its text by
\* validate_string, and a double quote.
C4_DatetimeQuoted ==
    Rendered =>
        LET E == EntryLines(Out)
            N == Nodes
        IN  /\ Len(E) = Len(N)
            /\ \A i \in 1..Len(E) :
                  N[i].value.type = "Datetime" =>
                    /\ LineKind(E[i]) = "scalar"
                    /\ ValueToken(E[i])
                       = <<DQ>> \o validate_string(DatetimeToString(N[i].value.d))
                         \o <<DQ>>

\* an offset datetime, keyed
C4_Witness ==
    /\ Rendered
    /\ \E i \in 1..Len(Nodes) :
          /\ Nodes[i].value.type = "Datetime"
          /\ Nodes[i].key.some
          /\ Nodes[i].value.d.date.some
          /\ Nodes[i].value.d.time.some
          /\ Nodes[i].value.d.offset.some

\* C9: parse fails only when the TOML parser rejects the input: it then
\* returns the parser's error as it is and never starts the Lua text; when
\* the parser accepts the input, parse returns Ok with the text of every
\* entry of the document.
C9_ErrorOutcome ==
    /\ ~input.valid => lua = <<>> /\ toml = <<>> /\ pc \in {"from_str", "done"}
    /\ pc # "done" => ~result.some
    /\ pc = "done" =>
          /\ result.some
          /\ result.val.ok = input.valid
          /\ IF input.valid
                THEN /\ result.val.val = lua
                     /\ toml = input.map
                     /\ idx = Len(toml) + 1
                     /\ Len(lua) >= 3
                     /\ lua[Len(lua)] = "}"
                     /\ Len(EntryLines(lua)) = Len(Nodes)
                ELSE result.val.err = input.error

C9_Witness ==
    /\ pc = "done"
    /\ ~input.valid
    /\ input.error = "duplicate key"
    /\ result = Some(Err("duplicate key"))

====
